---------------------------- MODULE Spec2Model ----------------------------
(***************************************************************************)
(* A model of create-album.py, the interactive Immich album manager.       *)
(*                                                                         *)
(* Strings are sequences of one-character strings, so that the string      *)
(* operations of the source (startswith, slicing, lstrip, join, dirname,   *)
(* normpath) are computed character by character as Python computes them.  *)
(* Three specifications share the variables:                               *)
(*   SpecPath  applies convert_to_immich_path to bounded inputs;           *)
(*   SpecAgg   applies get_all_assets_recursive to bounded trees and       *)
(*             bounded per-directory server responses;                     *)
(*   Spec      is a whole run of interactive_album_manager, one action per *)
(*             prompt, each action running the code up to the next prompt  *)
(*             or to the end of the run.                                   *)
(***************************************************************************)
EXTENDS Integers, Sequences, FiniteSets, TLC

VARIABLES
    pc,              \* the prompt or step the run is at, "exit" once it has ended
    dry_run,         \* args.dry_run
    IMMICH_HOST,     \* the module globals of the source
    API_KEY,
    LIBRARY_ROOT,
    HEADERS,
    fs,              \* the local filesystem: directory path -> its entries in scandir order
    server_albums,   \* the albums the server holds
    host,            \* get_immich_host_from_user: the address awaiting confirmation
    nested,          \* get_immich_host_from_user / get_api_key_from_user: the live
                     \* calls the function has made to itself
    albums,          \* select_album_interactive: the listing it printed
    selected_album,  \* interactive_album_manager: the selection
    full_path,       \* get_path_from_user: the path whose assets it counted last
    target_path,     \* interactive_album_manager: target_path
    asset_count,     \* interactive_album_manager: asset_count
    asset_ids,       \* interactive_album_manager: asset_ids
    folder_queries,  \* the path parameter of every folder GET of the latest collection
    prompt_queries,  \* the same, for the collection made at the path prompt
    listing,         \* outcome of the album listing made by create_album
    mutations,       \* the mutating REST calls issued, in order
    mutation_status, \* outcome of the latest mutating call
    stdout,          \* the messages printed by the latest step, the per-folder lines
                     \* of get_folder_assets and get_all_assets_recursive left out
    exception,       \* the exception that reached the top level, or NoException
    interrupted,     \* a KeyboardInterrupt was delivered at a prompt
    arg,             \* SpecPath / SpecAgg: the argument of the function applied
    responses,       \* SpecAgg: the server's answer for every folder path
    ret              \* SpecPath / SpecAgg: the value the function returned

vars == << pc, dry_run, IMMICH_HOST, API_KEY, LIBRARY_ROOT, HEADERS, fs,
           server_albums, host, nested, albums, selected_album, full_path,
           target_path, asset_count, asset_ids, folder_queries, prompt_queries, listing,
           mutations, mutation_status, stdout, exception, interrupted,
           arg, responses, ret >>

-----------------------------------------------------------------------------
(* Bounds of the model.                                                    *)

\* longest library root drawn by SpecPath
MaxRootLen == 3
\* longest absolute path drawn by SpecPath
MaxPathLen == 5
\* longest list of assets a folder response carries
MaxBodyLen == 2

-----------------------------------------------------------------------------
(* Python values.                                                          *)

\* Python's None; no string of the model equals it, since no character is "None"
None == << "None" >>

\* os.sep on the POSIX platforms the tool addresses
sep == "/"

\* the characters paths are drawn from
PathChars == { "/", "a", "b" }

NoException == "NoException"

\* "".join of a literal: the characters of a short ASCII word
S1(a) == << a >>
S2(a, b) == << a, b >>
S3(a, b, c) == << a, b, c >>

\* every string over chars of length at most n
RECURSIVE StringsUpTo(_, _)
StringsUpTo(chars, n) ==
    IF n = 0 THEN { << >> }
    ELSE LET shorter == StringsUpTo(chars, n - 1)
         IN  shorter \cup { Append(s, c) : s \in shorter, c \in chars }

-----------------------------------------------------------------------------
(* str methods.                                                            *)

\* str.startswith
startswith(s, prefix) ==
    /\ Len(prefix) <= Len(s)
    /\ SubSeq(s, 1, Len(prefix)) = prefix

\* str.endswith
endswith(s, suffix) ==
    /\ Len(suffix) <= Len(s)
    /\ SubSeq(s, Len(s) - Len(suffix) + 1, Len(s)) = suffix

\* s[n:]
SliceFrom(s, n) == SubSeq(s, n + 1, Len(s))

\* str.lstrip(ch) for a one-character argument: drops every leading ch
RECURSIVE lstrip(_, _)
lstrip(s, ch) ==
    IF s # << >> /\ Head(s) = ch THEN lstrip(Tail(s), ch) ELSE s

\* str.rstrip(ch) for a one-character argument
RECURSIVE rstrip(_, _)
rstrip(s, ch) ==
    IF s # << >> /\ s[Len(s)] = ch THEN rstrip(SubSeq(s, 1, Len(s) - 1), ch) ELSE s

\* the characters str.isspace() holds of, among those a string of the model
\* can hold: space, \t, \n, \r, \f, the vertical tab 0x0b, the separators
\* 0x1c to 0x1f, next line 0x85, the no-break space 0xa0 and U+1680
Whitespace ==
    { " ", "\t", "\n", "\r", "\f", "", "", "", "", "",
      "", " ", " " }

\* str.lstrip(chars): every leading character of chars dropped
RECURSIVE lstrip_chars(_, _)
lstrip_chars(s, chars) ==
    IF s # << >> /\ Head(s) \in chars THEN lstrip_chars(Tail(s), chars) ELSE s

\* str.rstrip(chars): every trailing character of chars dropped
RECURSIVE rstrip_chars(_, _)
rstrip_chars(s, chars) ==
    IF s # << >> /\ s[Len(s)] \in chars
    THEN rstrip_chars(SubSeq(s, 1, Len(s) - 1), chars)
    ELSE s

\* str.lstrip(): every leading whitespace character dropped
lstrip_whitespace(s) == lstrip_chars(s, Whitespace)

\* str.rstrip(): every trailing whitespace character dropped
rstrip_whitespace(s) == rstrip_chars(s, Whitespace)

\* str.strip(): whitespace removed at both ends
strip(s) == rstrip_whitespace(lstrip_whitespace(s))

\* str.find(ch, start): the 0-based index of the first ch at or after start, or -1
find(s, ch, start) ==
    LET hits == { i \in (start + 1)..Len(s) : s[i] = ch }
    IN  IF hits = { } THEN -1
        ELSE (CHOOSE i \in hits : \A j \in hits : i <= j) - 1

\* ch in s
contains(s, ch) == \E i \in 1..Len(s) : s[i] = ch

\* str.rfind(ch) + 1: the length of the prefix ending at the last ch
RECURSIVE rindex1(_, _)
rindex1(s, ch) ==
    IF s = << >> THEN 0
    ELSE IF s[Len(s)] = ch THEN Len(s)
    ELSE rindex1(SubSeq(s, 1, Len(s) - 1), ch)

\* s consists of ch only
AllChar(s, ch) == \A i \in 1..Len(s) : s[i] = ch

-----------------------------------------------------------------------------
(* posixpath.                                                              *)

\* os.path.join(a, b)
join(a, b) ==
    IF startswith(b, S1(sep)) THEN b
    ELSE IF a = << >> \/ endswith(a, S1(sep)) THEN a \o b
    ELSE a \o S1(sep) \o b

\* os.path.dirname(p)
dirname(p) ==
    LET head == SubSeq(p, 1, rindex1(p, sep))
    IN  IF head # << >> /\ ~AllChar(head, sep) THEN rstrip(head, sep) ELSE head

\* os.path.basename(p)
basename(p) == SliceFrom(p, rindex1(p, sep))

\* p.split('/')
RECURSIVE split(_, _)
split(p, cur) ==
    IF p = << >> THEN << cur >>
    ELSE IF Head(p) = sep THEN << cur >> \o split(Tail(p), << >>)
    ELSE split(Tail(p), Append(cur, Head(p)))

\* the component loop of os.path.normpath
RECURSIVE normcomps(_, _, _)
normcomps(comps, acc, slashes) ==
    IF comps = << >> THEN acc
    ELSE LET comp == Head(comps)
             dotdot == S2(".", ".")
         IN  IF comp = << >> \/ comp = S1(".")
             THEN normcomps(Tail(comps), acc, slashes)
             ELSE IF comp # dotdot
                     \/ (slashes = 0 /\ acc = << >>)
                     \/ (acc # << >> /\ acc[Len(acc)] = dotdot)
             THEN normcomps(Tail(comps), Append(acc, comp), slashes)
             ELSE IF acc # << >>
             THEN normcomps(Tail(comps), SubSeq(acc, 1, Len(acc) - 1), slashes)
             ELSE normcomps(Tail(comps), acc, slashes)

\* sep.join(comps)
RECURSIVE joincomps(_)
joincomps(comps) ==
    IF comps = << >> THEN << >>
    ELSE IF Len(comps) = 1 THEN Head(comps)
    ELSE Head(comps) \o S1(sep) \o joincomps(Tail(comps))

\* os.path.normpath(p)
normpath(p) ==
    IF p = << >> THEN S1(".")
    ELSE LET slashes == IF ~startswith(p, S1(sep)) THEN 0
                        ELSE IF startswith(p, S2(sep, sep)) /\ ~startswith(p, S3(sep, sep, sep))
                        THEN 2 ELSE 1
             body == joincomps(normcomps(split(p, << >>), << >>, slashes))
             lead == IF slashes = 2 THEN S2(sep, sep)
                     ELSE IF slashes = 1 THEN S1(sep) ELSE << >>
             path == lead \o body
         IN  IF path = << >> THEN S1(".") ELSE path

-----------------------------------------------------------------------------
(* The local filesystem.  fs maps the canonical path of every directory to *)
(* its entries in the order os.scandir lists them; there are no symbolic   *)
(* links.                                                                  *)

\* the process's working directory, which os.path.abspath prepends to a relative path
Cwd == S1(sep)

\* what a path that resolves to nothing looks up to: ENOENT or ENOTDIR
Unresolved == [ ok |-> FALSE, isdir |-> FALSE, path |-> << >> ]

\* the kernel's walk over the components comps from the entry at: "." and an
\* empty component stay, ".." goes to the parent, a name is searched among the
\* entries of the directory; any component after a file is ENOTDIR
RECURSIVE namei(_, _, _)
namei(comps, at, dir) ==
    IF comps = << >> THEN [ ok |-> TRUE, isdir |-> dir, path |-> at ]
    ELSE IF ~dir \/ at \notin DOMAIN fs THEN Unresolved
    ELSE LET comp == Head(comps)
             hits == { i \in 1..Len(fs[at]) : fs[at][i].name = comp }
         IN  IF comp = << >> \/ comp = S1(".") THEN namei(Tail(comps), at, TRUE)
             ELSE IF comp = S2(".", ".") THEN namei(Tail(comps), dirname(at), TRUE)
             ELSE IF hits = { } THEN Unresolved
             ELSE namei(Tail(comps), join(at, comp), fs[at][CHOOSE i \in hits : TRUE].isdir)

\* os.stat(p): the entry the kernel resolves p to, from the root for an
\* absolute path and from the working directory otherwise
lookup(p) ==
    IF p = << >> THEN Unresolved
    ELSE namei(split(p, << >>), IF startswith(p, S1(sep)) THEN S1(sep) ELSE Cwd, TRUE)

\* os.path.abspath(p)
abspath(p) == normpath(IF startswith(p, S1(sep)) THEN p ELSE join(Cwd, p))

\* $HOME of the process
Home == << sep, "r", "o", "o", "t" >>

\* the password database pwd.getpwnam reads: the one account root and its
\* home directory
Passwd == << "r", "o", "o", "t" >> :> Home

\* os.path.expanduser(p): "~" is $HOME, "~name" the home directory of the
\* account name, and a path naming no account is returned as it is
expanduser(p) ==
    IF ~startswith(p, S1("~")) THEN p
    ELSE LET found == find(p, sep, 1)
             i == IF found < 0 THEN Len(p) ELSE found
             name == SubSeq(p, 2, i)
         IN  IF i # 1 /\ name \notin DOMAIN Passwd THEN p
             ELSE LET userhome == IF i = 1 THEN Home ELSE Passwd[name]
                      expanded == rstrip(userhome, sep) \o SliceFrom(p, i)
                  IN  IF expanded = << >> THEN S1(sep) ELSE expanded

\* os.path.isdir(p)
isdir(p) == lookup(p).ok /\ lookup(p).isdir

\* p names a regular file
isfile(p) == lookup(p).ok /\ ~lookup(p).isdir

\* os.path.exists(p)
exists(p) == lookup(p).ok

\* the dirs list os.walk yields for directory top: the names of its subdirectories
RECURSIVE dirnames(_)
dirnames(entries) ==
    IF entries = << >> THEN << >>
    ELSE IF Head(entries).isdir THEN << Head(entries).name >> \o dirnames(Tail(entries))
    ELSE dirnames(Tail(entries))

\* os.walk(top), top-down: the directory of every triple it yields, in order
RECURSIVE walk(_)
RECURSIVE walk_each(_, _)
walk(top) ==
    IF ~isdir(top) THEN << >>
    ELSE << top >> \o walk_each(top, dirnames(fs[lookup(top).path]))

walk_each(top, names) ==
    IF names = << >> THEN << >>
    ELSE walk(join(top, Head(names))) \o walk_each(top, Tail(names))

\* the inner loop of get_all_subdirectories: join(root, dir_name) for dir_name in dirs
RECURSIVE join_each(_, _)
join_each(root, names) ==
    IF names = << >> THEN << >>
    ELSE << join(root, Head(names)) >> \o join_each(root, Tail(names))

\* the outer loop of get_all_subdirectories over the triples of os.walk
RECURSIVE subdirs_of(_)
subdirs_of(roots) ==
    IF roots = << >> THEN << >>
    ELSE join_each(Head(roots), dirnames(fs[lookup(Head(roots)).path])) \o subdirs_of(Tail(roots))

get_all_subdirectories(root_dir) == subdirs_of(walk(root_dir))

-----------------------------------------------------------------------------
(* Path resolution.                                                        *)

\* a plausible slip: the leading separators are left in place
convert_to_immich_path_keep_sep(abs_path) ==
    IF LIBRARY_ROOT # None /\ LIBRARY_ROOT # << >> /\ startswith(abs_path, LIBRARY_ROOT)
    THEN SliceFrom(abs_path, Len(LIBRARY_ROOT))
    ELSE abs_path

convert_to_immich_path(abs_path) ==
    IF LIBRARY_ROOT # None /\ LIBRARY_ROOT # << >> /\ startswith(abs_path, LIBRARY_ROOT)
    THEN lstrip(SliceFrom(abs_path, Len(LIBRARY_ROOT)), sep)
    ELSE abs_path

-----------------------------------------------------------------------------
(* The REST server's answers.                                              *)

\* the asset identifiers the server knows: opaque strings
Assets == { "1", "2" }

\* the bodies of a well-formed folder answer: the ids of its items, in order
FolderBodies == UNION { [1..n -> Assets] : n \in 0..MaxBodyLen }

\* what one folder GET can meet:
\*   ok                the JSON list of items, each with an id
\*   connection_error  requests.ConnectionError raised by requests.get
\*   http_error        requests.HTTPError raised by raise_for_status
\*   no_id             a JSON list whose items carry no "id"
FolderResponses ==
    [ kind : { "ok" }, ids : FolderBodies ]
    \cup [ kind : { "connection_error", "http_error", "no_id" }, ids : { << >> } ]

\* a value returned, or an exception raised; queries are the folder GETs issued
Returned(v, q) == [ value |-> v, raised |-> NoException, queries |-> q ]
Raised(e, q) == [ value |-> << >>, raised |-> e, queries |-> q ]

\* get_folder_assets, answered by resp (path parameter -> answer)
get_folder_assets(abs_folder_path, resp) ==
    LET immich_path == convert_to_immich_path(abs_folder_path)
        r == resp[immich_path]
    IN  IF r.kind = "ok" THEN Returned(r.ids, << immich_path >>)
        ELSE IF r.kind \in { "connection_error", "http_error" }
        THEN Returned(<< >>, << immich_path >>)
        ELSE Raised("KeyError", << immich_path >>)

\* list(dict.fromkeys(xs)): the first occurrence of every element, in order
RECURSIVE fromkeys(_, _)
fromkeys(xs, acc) ==
    IF xs = << >> THEN acc
    ELSE IF \E i \in 1..Len(acc) : acc[i] = Head(xs)
    THEN fromkeys(Tail(xs), acc)
    ELSE fromkeys(Tail(xs), Append(acc, Head(xs)))

\* the loop of get_all_assets_recursive over the subdirectories
RECURSIVE extend_each(_, _, _, _)
extend_each(subdirs, resp, all_asset_ids, queries) ==
    IF subdirs = << >> THEN Returned(all_asset_ids, queries)
    ELSE LET subdir_assets == get_folder_assets(Head(subdirs), resp)
         IN  IF subdir_assets.raised # NoException
             THEN Raised(subdir_assets.raised, queries \o subdir_assets.queries)
             ELSE extend_each(Tail(subdirs), resp,
                              all_asset_ids \o subdir_assets.value,
                              queries \o subdir_assets.queries)

\* a plausible slip: the concatenation is returned without deduplication
get_all_assets_recursive_dups(root_folder, resp) ==
    LET root_assets == get_folder_assets(root_folder, resp)
    IN  IF root_assets.raised # NoException THEN root_assets
        ELSE extend_each(get_all_subdirectories(root_folder), resp,
                         root_assets.value, root_assets.queries)

get_all_assets_recursive(root_folder, resp) ==
    LET root_assets == get_folder_assets(root_folder, resp)
    IN  IF root_assets.raised # NoException THEN root_assets
        ELSE LET all == extend_each(get_all_subdirectories(root_folder), resp,
                                    root_assets.value, root_assets.queries)
             IN  IF all.raised # NoException THEN all
                 ELSE Returned(fromkeys(all.value, << >>), all.queries)

\* the directories one aggregation queries, and the path parameters it sends
QueriedDirs(root_folder) == << root_folder >> \o get_all_subdirectories(root_folder)
QueryPaths(dirs) == { convert_to_immich_path(dirs[i]) : i \in 1..Len(dirs) }

-----------------------------------------------------------------------------
(* The state every specification starts from, before its inputs are drawn. *)

\* a filesystem holding the root directory only
EmptyFS == [ d \in { S1(sep) } |-> << >> ]

Dir(n) == [ name |-> n, isdir |-> TRUE ]
File(n) == [ name |-> n, isdir |-> FALSE ]

\* the manager's selected_album before select_album_interactive has returned one
NoAlbum == [ none |-> TRUE ]

Idle ==
    /\ IMMICH_HOST = None
    /\ API_KEY = None
    /\ HEADERS = None
    /\ host = None
    /\ nested = 0
    /\ albums = << >>
    /\ selected_album = NoAlbum
    /\ full_path = None
    /\ target_path = None
    /\ asset_count = 0
    /\ asset_ids = << >>
    /\ folder_queries = << >>
    /\ prompt_queries = << >>
    /\ listing = "not_listed"
    /\ mutations = << >>
    /\ mutation_status = "not_called"
    /\ stdout = << >>
    /\ exception = NoException
    /\ interrupted = FALSE
    /\ ret = None

-----------------------------------------------------------------------------
(* SpecPath: convert_to_immich_path applied to every bounded root and path. *)

\* the values get_library_root_from_user can store: os.path.abspath of a non-empty input
LibraryRoots ==
    { abspath(expanduser(p)) : p \in StringsUpTo(PathChars, MaxRootLen) \ { << >> } }

\* the absolute paths handed to the conversion
AbsPaths == { p \in StringsUpTo(PathChars, MaxPathLen) : startswith(p, S1(sep)) }

InitPath ==
    /\ Idle
    /\ pc = "convert"
    /\ dry_run = FALSE
    /\ fs = EmptyFS
    /\ server_albums = << >>
    /\ responses = None
    /\ LIBRARY_ROOT \in LibraryRoots
    /\ arg \in AbsPaths

ConvertPath ==
    /\ pc = "convert"
    /\ ret' = convert_to_immich_path(arg)
    /\ pc' = "returned"
    /\ UNCHANGED << dry_run, IMMICH_HOST, API_KEY, LIBRARY_ROOT, HEADERS, fs,
                    server_albums, host, nested, albums, selected_album, full_path,
                    target_path, asset_count, asset_ids, folder_queries,
                    prompt_queries, listing, mutations, mutation_status,
                    stdout, exception, interrupted, arg, responses >>

NextPath == ConvertPath

SpecPath == InitPath /\ [][NextPath]_vars

-----------------------------------------------------------------------------
(* SpecAgg: get_all_assets_recursive applied to bounded trees and answers. *)

\* the library of the trees below
AggRoot == S2(sep, "a")

\* /a holding a and b, listed in that order
TreeFlat ==
    (S1(sep) :> << Dir(S1("a")) >>)
    @@ (AggRoot :> << Dir(S1("a")), File(S2("a", "b")), Dir(S1("b")) >>)
    @@ (join(AggRoot, S1("a")) :> << >>)
    @@ (join(AggRoot, S1("b")) :> << File(S1("a")) >>)

\* the same directories, listed b first
TreeFlatReversed ==
    (S1(sep) :> << Dir(S1("a")) >>)
    @@ (AggRoot :> << Dir(S1("b")), Dir(S1("a")) >>)
    @@ (join(AggRoot, S1("a")) :> << >>)
    @@ (join(AggRoot, S1("b")) :> << >>)

\* /a holding a, which holds b
TreeChain ==
    (S1(sep) :> << Dir(S1("a")) >>)
    @@ (AggRoot :> << File(S1("b")), Dir(S1("a")) >>)
    @@ (join(AggRoot, S1("a")) :> << Dir(S1("b")) >>)
    @@ (join(AggRoot, S3("a", sep, "b")) :> << >>)

\* /a holding a and b, a holding b: the walk lists /a/a, /a/b, /a/a/b
TreeNested ==
    (S1(sep) :> << Dir(S1("a")) >>)
    @@ (AggRoot :> << Dir(S1("a")), Dir(S1("b")) >>)
    @@ (join(AggRoot, S1("a")) :> << Dir(S1("b")) >>)
    @@ (join(AggRoot, S1("b")) :> << >>)
    @@ (join(AggRoot, S3("a", sep, "b")) :> << >>)

Trees == { TreeFlat, TreeFlatReversed, TreeChain, TreeNested }

InitAgg ==
    /\ Idle
    /\ pc = "aggregate"
    /\ dry_run = FALSE
    /\ server_albums = << >>
    /\ LIBRARY_ROOT = AggRoot
    /\ fs \in Trees
    /\ arg \in DOMAIN fs \ { S1(sep) }
    /\ responses \in [ QueryPaths(QueriedDirs(arg)) -> FolderResponses ]

Aggregate ==
    /\ pc = "aggregate"
    /\ ret' = get_all_assets_recursive(arg, responses)
    /\ pc' = "returned"
    /\ UNCHANGED << dry_run, IMMICH_HOST, API_KEY, LIBRARY_ROOT, HEADERS, fs,
                    server_albums, host, nested, albums, selected_album, full_path,
                    target_path, asset_count, asset_ids, folder_queries,
                    prompt_queries, listing, mutations, mutation_status,
                    stdout, exception, interrupted, arg, responses >>

NextAgg == Aggregate

SpecAgg == InitAgg /\ [][NextAgg]_vars

-----------------------------------------------------------------------------
(* The album calls.                                                        *)

\* Python's truth value of what create_album / add_assets_to_album return
truthy(v) == v = "True"

\* what the album listing GET can meet:
\*   ok                the server's albums as a JSON list of objects
\*   connection_error  requests.ConnectionError raised by requests.get
\*   http_error        requests.HTTPError raised by raise_for_status
\*   not_objects       a JSON list whose items are not objects
AlbumsResponses == { "ok", "connection_error", "http_error", "not_objects" }

\* what a POST or PUT can meet; its body is never read
MutationResponses == { "ok", "connection_error", "http_error" }

\* a JSON list holding a string
NotObjects == << [ json_string |-> "x" ] >>

\* get_all_albums, answered by r
get_all_albums(r) ==
    IF r = "ok" THEN server_albums
    ELSE IF r = "not_objects" THEN NotObjects
    ELSE << >>

\* what get_all_albums prints: the except clause's message
get_all_albums_printed(r) ==
    IF r \in { "connection_error", "http_error" } THEN << "[ERROR] get albums" >> ELSE << >>

\* album_exists; album.get("albumName") of an item that is no dict raises AttributeError
album_exists(album_name, r) ==
    LET listed == get_all_albums(r)
    IN  IF listed # << >> /\ "albumName" \notin DOMAIN listed[1]
        THEN [ value |-> FALSE, raised |-> "AttributeError" ]
        ELSE [ value |-> \E i \in 1..Len(listed) : listed[i].albumName = album_name,
               raised |-> NoException ]

Post(album_name, ids) ==
    [ method |-> "POST", url |-> "/api/albums", target |-> album_name, assetIds |-> ids ]

Put(album_id, ids) ==
    [ method |-> "PUT", url |-> "/api/albums/{album_id}/assets", target |-> album_id,
      assetIds |-> ids ]

\* what a call printed, issued and returned
Outcome(v, printed, calls, listed, status, e) ==
    [ value |-> v, printed |-> printed, calls |-> calls, listed |-> listed,
      status |-> status, raised |-> e ]

\* create_album: it has no return statement, so it returns None on every path
create_album(album_name, ids, dry, lr, pr) ==
    LET found == album_exists(album_name, lr)
    IN  IF found.raised # NoException
        THEN Outcome("None", << >>, << >>, "not_listed", "not_called", found.raised)
        ELSE IF found.value
        THEN Outcome("None", << "[SKIP] already exists" >>, << >>, "exists", "not_called",
                     NoException)
        ELSE IF dry
        THEN Outcome("None", get_all_albums_printed(lr) \o << "[DRY-RUN] would create" >>,
                     << >>, "absent", "not_called", NoException)
        ELSE Outcome("None",
                     get_all_albums_printed(lr)
                     \o << IF pr = "ok" THEN "[OK] album created" ELSE "[ERROR] create album" >>,
                     << Post(album_name, ids) >>, "absent", pr, NoException)

add_assets_to_album(album_id, ids, dry, pr) ==
    IF ids = << >>
    THEN Outcome("False", << "[ERROR] no assets to add" >>, << >>, "not_listed",
                 "not_called", NoException)
    ELSE IF dry
    THEN Outcome("True", << "[DRY-RUN] would add" >>, << >>, "not_listed", "not_called",
                 NoException)
    ELSE IF pr = "ok"
    THEN Outcome("True", << "[OK] added" >>, << Put(album_id, ids) >>, "not_listed", pr,
                 NoException)
    ELSE Outcome("False", << "[ERROR] add assets" >>, << Put(album_id, ids) >>, "not_listed",
                 pr, NoException)

-----------------------------------------------------------------------------
(* Asset collection for a target path.                                     *)

\* a plausible slip: a file is aggregated like a directory
collect_at_prompt_as_dir(path, resp) == get_all_assets_recursive(path, resp)

\* get_path_from_user: the query of the path's assets
collect_at_prompt(path, resp) ==
    IF isdir(path) THEN get_all_assets_recursive(path, resp)
    ELSE get_folder_assets(dirname(path), resp)

\* interactive_album_manager: the second collection
collect_again(path, resp) ==
    IF isdir(path) THEN get_all_assets_recursive(path, resp)
    ELSE get_folder_assets(dirname(path), resp)

\* the path parameters the server holds an answer for while path is collected:
\* those of the directories at and below it, or, for a file, its own and its
\* directory's, the code deciding which of them it asks for
CollectPaths(path) ==
    IF isdir(path) THEN QueryPaths(QueriedDirs(path))
    ELSE { convert_to_immich_path(dirname(path)), convert_to_immich_path(path) }

\* a plausible slip: the manager goes on with an empty list
nothing_collected_unchecked(ids) == FALSE

\* interactive_album_manager: not asset_ids
nothing_collected(ids) == ids = << >>

-----------------------------------------------------------------------------
(* What the user types.                                                    *)

\* input() raising KeyboardInterrupt instead of returning a line
Interrupt == << "KeyboardInterrupt" >>

DefaultHost ==
    << "1", "2", "7", ".", "0", ".", "0", ".", "1", ":", "2", "2", "8", "3" >>

HostInputs == { << >>, S1(" "), S1("\t"), S1("h") }
ConfirmInputs == { S1("y"), S1("Y"), S2("\t", "y"), S1("n"), << >> }
ApiKeyInputs == { << >>, S1("k") }
LibraryRootInputs ==
    { << >>, S2(sep, "a"), S2("a", sep), S2(sep, "b"), S3(sep, "b", "b"), S1("~") }
ChoiceInputs ==
    { << >>, S1("0"), S1("1"), S1("2"), S1("3"), S2("-", "1"), S1("x"), S3("0", "_", "1") }
AlbumNameInputs == { << >>, S1("A"), S1("N") }
PathInputs ==
    { << >>, S1("a"), S1("b"), S3("a", sep, "b"), S2("b", "b"), S3("b", sep, ".") }

\* s.lower() == 'y': Y is the one character other than y that str.lower maps
\* to y, and no other string lowers to the one-character string y
lower_is_y(s) == s \in { S1("y"), S1("Y") }

\* Digits[v + 1]: the characters int() reads as the decimal digit v, the ASCII
\* digit and that of every other script a string of the model can hold
Digits ==
    << { "0", "۰", "߀", "০", "૦", "௦", "೦", "෦", "໐", "႐", "០", "᧐", "᪀", "᪐", "᮰", "꣐", "꧐", "꧰", "꯰" },
       { "1", "۱", "߁", "১", "૧", "௧", "೧", "෧", "໑", "႑", "១", "᧑", "᪁", "᪑", "᮱", "꣑", "꧑", "꧱", "꯱" },
       { "2", "۲", "߂", "২", "૨", "௨", "೨", "෨", "໒", "႒", "២", "᧒", "᪂", "᪒", "᮲", "꣒", "꧒", "꧲", "꯲" },
       { "3", "۳", "߃", "৩", "૩", "௩", "೩", "෩", "໓", "႓", "៣", "᧓", "᪃", "᪓", "᮳", "꣓", "꧓", "꧳", "꯳" },
       { "4", "۴", "߄", "৪", "૪", "௪", "೪", "෪", "໔", "႔", "៤", "᧔", "᪄", "᪔", "᮴", "꣔", "꧔", "꧴", "꯴" },
       { "5", "۵", "߅", "৫", "૫", "௫", "೫", "෫", "໕", "႕", "៥", "᧕", "᪅", "᪕", "᮵", "꣕", "꧕", "꧵", "꯵" },
       { "6", "۶", "߆", "৬", "૬", "௬", "೬", "෬", "໖", "႖", "៦", "᧖", "᪆", "᪖", "᮶", "꣖", "꧖", "꧶", "꯶" },
       { "7", "۷", "߇", "৭", "૭", "௭", "೭", "෭", "໗", "႗", "៧", "᧗", "᪇", "᪗", "᮷", "꣗", "꧗", "꧷", "꯷" },
       { "8", "۸", "߈", "৮", "૮", "௮", "೮", "෮", "໘", "႘", "៨", "᧘", "᪈", "᪘", "᮸", "꣘", "꧘", "꧸", "꯸" },
       { "9", "۹", "߉", "৯", "૯", "௯", "೯", "෯", "໙", "႙", "៩", "᧙", "᪉", "᪙", "᮹", "꣙", "꧙", "꧹", "꯹" } >>
IsDigit(c) == \E i \in 1..10 : c \in Digits[i]
DigitValue(c) == (CHOOSE i \in 1..10 : c \in Digits[i]) - 1

RECURSIVE digits_value(_, _)
digits_value(s, acc) ==
    IF s = << >> THEN acc ELSE digits_value(Tail(s), 10 * acc + DigitValue(Head(s)))

\* the whitespace int() drops around the number: that of str.strip() but for
\* the separators 0x1c to 0x1f
IntWhitespace == Whitespace \ { "", "", "", "" }

\* int(s): surrounding whitespace is dropped; what is left is an optional
\* sign and decimal digits, with single underscores allowed between digits;
\* anything else raises ValueError
int(s) ==
    LET t == rstrip_chars(lstrip_chars(s, IntWhitespace), IntWhitespace)
        signed == t # << >> /\ Head(t) \in { "-", "+" }
        body == IF signed THEN Tail(t) ELSE t
        wellformed ==
            /\ body # << >>
            /\ IsDigit(body[1])
            /\ IsDigit(body[Len(body)])
            /\ \A i \in 1..Len(body) : IsDigit(body[i]) \/ body[i] = "_"
            /\ \A i \in 1..(Len(body) - 1) : ~(body[i] = "_" /\ body[i + 1] = "_")
        magnitude == digits_value(SelectSeq(body, IsDigit), 0)
    IN  IF ~wellformed
        THEN [ raised |-> "ValueError", value |-> 0 ]
        ELSE [ raised |-> NoException,
               value |-> IF Head(t) = "-" THEN 0 - magnitude ELSE magnitude ]

setup_headers(api_key) ==
    [ x_api_key |-> api_key, content_type |-> "application/json" ]

-----------------------------------------------------------------------------
(* Spec: a run of interactive_album_manager.                               *)

AlbumA == [ albumName |-> S1("A"), id |-> "id-A" ]
AlbumB == [ albumName |-> S1("B"), id |-> "id-B" ]

\* the albums the server may hold when the run starts
ServerStates == { << >>, << AlbumA >>, << AlbumA, AlbumB >> }

\* the machine the tool runs on: / holds a, the file b and the empty home
\* directory root; /a holds a and the file b, /a/a holds b
ManagerFS ==
    (S1(sep) :> << Dir(S1("a")), File(S1("b")), Dir(Tail(Home)) >>)
    @@ (Home :> << >>)
    @@ (S2(sep, "a") :> << Dir(S1("a")), File(S1("b")) >>)
    @@ (<< sep, "a", sep, "a" >> :> << Dir(S1("b")) >>)
    @@ (<< sep, "a", sep, "a", sep, "b" >> :> << >>)

Init ==
    /\ Idle
    /\ pc = "host"
    /\ dry_run \in BOOLEAN
    /\ fs = ManagerFS
    /\ server_albums \in ServerStates
    /\ LIBRARY_ROOT = None
    /\ arg = None
    /\ responses = None

config == << IMMICH_HOST, API_KEY, LIBRARY_ROOT, HEADERS >>
world == << dry_run, fs, arg, responses, ret, nested >>
machine == << dry_run, fs, arg, responses, ret >>
chosen == << selected_album, full_path, target_path, asset_count, asset_ids >>
calls == << folder_queries, prompt_queries, listing, mutations, mutation_status >>

\* the run ends with exception e reaching the top level
Crash(e) ==
    /\ exception' = e
    /\ pc' = "exit"

Prompts ==
    { "host", "host_confirm", "api_key", "library_root", "library_root_retry",
      "select_album", "new_album_name", "path", "path_retry" }

\* the except KeyboardInterrupt clause around the prompt at, and what the
\* manager prints when the prompting function then returns None
caught_KeyboardInterrupt(at) ==
    [ printed |-> << "cancelled",
                     CASE at \in { "host", "host_confirm" } -> "no host, exiting"
                       [] at = "api_key" -> "no api key, exiting"
                       [] at \in { "library_root", "library_root_retry" } ->
                            "no library root, exiting"
                       [] OTHER -> "operation cancelled" >>,
      raised |-> NoException ]

\* sys.getrecursionlimit() of the interpreter
RecursionLimit == 1000

\* the calls of a prompting function that can be live at once and still read
\* a line, when the script runs as the main program under CPython 3.11 and
\* each line arrives after its prompt: the module and interactive_album_manager
\* are two frames, and input() waiting for a line nests three levels below
\* the call that prompts
MaxLiveCalls == RecursionLimit - 5

\* the function calls itself once more: the call after the last that fits
\* shows its prompt and raises RecursionError inside input(), which no
\* handler catches
recursive_call_fails == nested + 2 > MaxLiveCalls

\* the prompt is that of the deepest call that fits: nothing more can be
\* called below input()
at_recursion_limit ==
    pc \in { "host", "host_confirm", "api_key" } /\ nested + 1 = MaxLiveCalls

\* Ctrl-C at any prompt.  In the deepest call that fits under the recursion
\* limit the outcome depends on standard input: from a terminal input()
\* raises KeyboardInterrupt as elsewhere; from a pipe the signal handler is
\* one call too many, and RecursionError is raised in its place, which the
\* except clause does not catch
KeyboardInterruptAtPrompt ==
    /\ pc \in Prompts
    /\ \/ LET handled == caught_KeyboardInterrupt(pc)
          IN  /\ stdout' = handled.printed
              /\ exception' = handled.raised
       \/ /\ at_recursion_limit
          /\ stdout' = << >>
          /\ exception' = "RecursionError"
    /\ interrupted' = TRUE
    /\ host' = None
    /\ nested' = 0
    /\ pc' = "exit"
    /\ UNCHANGED << config, machine, chosen, calls, server_albums, albums >>

\* get_immich_host_from_user: the address prompt
HostPrompt ==
    /\ pc = "host"
    /\ \E line \in HostInputs :
          LET typed == strip(line)
              h == IF typed = << >> THEN DefaultHost ELSE typed
          IN  IF ~contains(h, ":")
              THEN /\ host' = h
                   /\ stdout' = << "address may be malformed" >>
                   /\ pc' = "host_confirm"
                   /\ UNCHANGED << IMMICH_HOST, nested >>
              ELSE /\ IMMICH_HOST' = h
                   /\ host' = None
                   /\ nested' = 0
                   /\ stdout' = << >>
                   /\ pc' = "api_key"
    /\ UNCHANGED << API_KEY, LIBRARY_ROOT, HEADERS, machine, chosen, calls,
                    server_albums, albums, exception, interrupted >>

\* get_immich_host_from_user: the confirmation of an address without a port
HostConfirmPrompt ==
    /\ pc = "host_confirm"
    /\ \E line \in ConfirmInputs :
          IF ~lower_is_y(strip(line))
          THEN /\ host' = None
               /\ UNCHANGED IMMICH_HOST
               /\ IF recursive_call_fails
                  THEN /\ Crash("RecursionError")
                       /\ nested' = 0
                  ELSE /\ pc' = "host"
                       /\ nested' = nested + 1
                       /\ UNCHANGED exception
          ELSE /\ IMMICH_HOST' = host
               /\ host' = None
               /\ nested' = 0
               /\ pc' = "api_key"
               /\ UNCHANGED exception
    /\ stdout' = << >>
    /\ UNCHANGED << API_KEY, LIBRARY_ROOT, HEADERS, machine, chosen, calls,
                    server_albums, albums, interrupted >>

\* get_api_key_from_user
ApiKeyPrompt ==
    /\ pc = "api_key"
    /\ \E line \in ApiKeyInputs :
          LET api_key == strip(line)
          IN  IF api_key = << >>
              THEN /\ stdout' = << "api key is empty" >>
                   /\ UNCHANGED << API_KEY, HEADERS >>
                   /\ IF recursive_call_fails
                      THEN /\ Crash("RecursionError")
                           /\ nested' = 0
                      ELSE /\ pc' = "api_key"
                           /\ nested' = nested + 1
                           /\ UNCHANGED exception
              ELSE /\ API_KEY' = api_key
                   /\ HEADERS' = setup_headers(api_key)
                   /\ nested' = 0
                   /\ stdout' = << >>
                   /\ pc' = "library_root"
                   /\ UNCHANGED exception
    /\ UNCHANGED << IMMICH_HOST, LIBRARY_ROOT, machine, chosen, calls,
                    server_albums, host, albums, interrupted >>

\* get_library_root_from_user, and on success the manager's summary and the
\* listing select_album_interactive makes before its prompt
LibraryRootPrompt ==
    /\ pc = "library_root"
    /\ \E line \in LibraryRootInputs, r \in AlbumsResponses :
          LET path == strip(line)
              full == abspath(expanduser(path))
              listed == get_all_albums(r)
          IN  IF path = << >>
              THEN /\ stdout' = << "path is empty" >>
                   /\ pc' = "library_root"
                   /\ UNCHANGED << LIBRARY_ROOT, albums, exception >>
              ELSE IF ~exists(full)
              THEN /\ stdout' = << "path does not exist" >>
                   /\ pc' = "library_root_retry"
                   /\ UNCHANGED << LIBRARY_ROOT, albums, exception >>
              ELSE IF ~isdir(full)
              THEN /\ stdout' = << "path is not a directory" >>
                   /\ pc' = "library_root_retry"
                   /\ UNCHANGED << LIBRARY_ROOT, albums, exception >>
              ELSE /\ LIBRARY_ROOT' = full
                   /\ IF listed # << >> /\ "albumName" \notin DOMAIN listed[1]
                      THEN /\ Crash("AttributeError")
                           /\ stdout' = << "configuration" >> \o get_all_albums_printed(r)
                                        \o << "albums found", "album list" >>
                           /\ UNCHANGED albums
                      ELSE /\ albums' = listed
                           /\ stdout' = << "configuration" >> \o get_all_albums_printed(r)
                                        \o << "albums found", "album list" >>
                           /\ pc' = "select_album"
                           /\ UNCHANGED exception
    /\ UNCHANGED << IMMICH_HOST, API_KEY, HEADERS, world, chosen, calls,
                    server_albums, host, interrupted >>

\* get_library_root_from_user: "enter it again?"
LibraryRootRetryPrompt ==
    /\ pc = "library_root_retry"
    /\ \E line \in ConfirmInputs :
          IF ~lower_is_y(strip(line))
          THEN /\ stdout' = << "no library root, exiting" >>
               /\ pc' = "exit"
          ELSE /\ stdout' = << >>
               /\ pc' = "library_root"
    /\ UNCHANGED << config, world, chosen, calls, server_albums, host, albums,
                    exception, interrupted >>

\* select_album_interactive: the choice prompt
SelectAlbumPrompt ==
    /\ pc = "select_album"
    /\ \E line \in ChoiceInputs :
          LET choice == strip(line)
              choice_num == int(choice)
          IN  IF choice = << >>
              THEN /\ stdout' = << >>
                   /\ pc' = "select_album"
                   /\ UNCHANGED selected_album
              ELSE IF choice_num.raised # NoException
              THEN /\ stdout' = << "not a number" >>
                   /\ pc' = "select_album"
                   /\ UNCHANGED selected_album
              ELSE IF choice_num.value = 0
              THEN /\ stdout' = << >>
                   /\ pc' = "new_album_name"
                   /\ UNCHANGED selected_album
              ELSE IF 1 <= choice_num.value /\ choice_num.value <= Len(albums)
              THEN /\ selected_album' = albums[choice_num.value]
                   /\ stdout' = << "existing album selected" >>
                   /\ pc' = "path"
              ELSE /\ stdout' = << "choice out of range" >>
                   /\ pc' = "select_album"
                   /\ UNCHANGED selected_album
    /\ UNCHANGED << config, world, full_path, target_path, asset_count, asset_ids,
                    calls, server_albums, host, albums, exception, interrupted >>

\* get_new_album_name
NewAlbumNamePrompt ==
    /\ pc = "new_album_name"
    /\ \E line \in AlbumNameInputs, r \in AlbumsResponses :
          LET album_name == strip(line)
              found == album_exists(album_name, r)
          IN  IF album_name = << >>
              THEN /\ stdout' = << "album name is empty" >>
                   /\ pc' = "new_album_name"
                   /\ UNCHANGED << selected_album, exception >>
              ELSE IF found.raised # NoException
              THEN /\ Crash(found.raised)
                   /\ stdout' = << >>
                   /\ UNCHANGED selected_album
              ELSE IF found.value
              THEN /\ stdout' = << "album name is taken" >>
                   /\ pc' = "new_album_name"
                   /\ UNCHANGED << selected_album, exception >>
              ELSE /\ selected_album' = [ create_new |-> TRUE, albumName |-> album_name ]
                   /\ stdout' = get_all_albums_printed(r) \o << "new album will be created" >>
                   /\ pc' = "path"
                   /\ UNCHANGED exception
    /\ UNCHANGED << config, world, full_path, target_path, asset_count, asset_ids,
                    calls, server_albums, host, albums, interrupted >>

\* get_path_from_user: the path prompt and the count of the path's assets
PathPrompt ==
    /\ pc = "path"
    /\ \E line \in PathInputs :
          LET path == strip(line)
              full == join(LIBRARY_ROOT, path)
          IN  IF path = << >>
              THEN /\ stdout' = << "path is empty" >>
                   /\ pc' = "path"
                   /\ UNCHANGED << full_path, target_path, asset_count,
                                   prompt_queries, exception >>
              ELSE IF ~exists(full)
              THEN /\ stdout' = << "path does not exist" >>
                   /\ pc' = "path_retry"
                   /\ UNCHANGED << full_path, target_path, asset_count,
                                   prompt_queries, exception >>
              ELSE \E resp \in [ CollectPaths(full) -> FolderResponses ] :
                      LET got == collect_at_prompt(full, resp)
                      IN  /\ full_path' = full
                          /\ prompt_queries' = got.queries
                          /\ IF got.raised # NoException
                             THEN /\ Crash(got.raised)
                                  /\ stdout' = << "querying" >>
                                  /\ UNCHANGED << target_path, asset_count >>
                             ELSE IF Len(got.value) = 0
                             THEN /\ stdout' = << "querying", "assets found",
                                                  "no assets in this path" >>
                                  /\ pc' = "path_retry"
                                  /\ UNCHANGED << target_path, asset_count, exception >>
                             ELSE /\ target_path' = full
                                  /\ asset_count' = Len(got.value)
                                  /\ stdout' = << "querying", "assets found" >>
                                  /\ pc' = "collect"
                                  /\ UNCHANGED exception
    /\ UNCHANGED << config, world, selected_album, asset_ids, folder_queries,
                    listing, mutations, mutation_status, server_albums, host,
                    albums, interrupted >>

\* get_path_from_user: "enter it again?"
PathRetryPrompt ==
    /\ pc = "path_retry"
    /\ \E line \in ConfirmInputs :
          IF ~lower_is_y(strip(line))
          THEN /\ stdout' = << "operation cancelled" >>
               /\ pc' = "exit"
          ELSE /\ stdout' = << >>
               /\ pc' = "path"
    /\ UNCHANGED << config, world, chosen, calls, server_albums, host, albums,
                    exception, interrupted >>

\* interactive_album_manager: the assets are collected a second time
Collect ==
    /\ pc = "collect"
    /\ \E resp \in [ CollectPaths(target_path) -> FolderResponses ] :
          LET got == collect_again(target_path, resp)
          IN  /\ folder_queries' = got.queries
              /\ IF got.raised # NoException
                 THEN /\ Crash(got.raised)
                      /\ stdout' = << >>
                      /\ UNCHANGED asset_ids
                 ELSE IF nothing_collected(got.value)
                 THEN /\ asset_ids' = got.value
                      /\ stdout' = << "no assets found in path" >>
                      /\ pc' = "exit"
                      /\ UNCHANGED exception
                 ELSE /\ asset_ids' = got.value
                      /\ stdout' = << >>
                      /\ pc' = "operate"
                      /\ UNCHANGED exception
    /\ UNCHANGED << config, world, selected_album, full_path, target_path,
                    asset_count, prompt_queries, listing, mutations,
                    mutation_status, server_albums, host, albums, interrupted >>

is_new_album == "create_new" \in DOMAIN selected_album /\ selected_album.create_new

\* interactive_album_manager: a new album is created from the assets
CreateNewAlbum ==
    /\ pc = "operate"
    /\ is_new_album
    /\ \E lr \in AlbumsResponses, pr \in MutationResponses :
          LET done == create_album(selected_album.albumName, asset_ids, dry_run, lr, pr)
              success == done.value
          IN  /\ listing' = done.listed
              /\ mutations' = mutations \o done.calls
              /\ mutation_status' = done.status
              /\ server_albums' =
                    IF done.calls # << >> /\ done.status = "ok"
                    THEN Append(server_albums,
                                [ albumName |-> selected_album.albumName, id |-> "id-new" ])
                    ELSE server_albums
              /\ exception' = done.raised
              /\ stdout' =
                    IF done.raised # NoException THEN done.printed
                    ELSE IF truthy(success) \/ dry_run
                    THEN IF dry_run
                         THEN done.printed \o << "[DRY-RUN] simulated: create new album" >>
                         ELSE done.printed \o << "new album created" >>
                    ELSE done.printed \o << "creating the new album failed" >>
    /\ pc' = "exit"
    /\ UNCHANGED << config, world, chosen, folder_queries, prompt_queries, host,
                    albums, interrupted >>

\* interactive_album_manager: the assets are added to the album selected
AddToExistingAlbum ==
    /\ pc = "operate"
    /\ ~is_new_album
    /\ \E pr \in MutationResponses :
          LET done == add_assets_to_album(selected_album.id, asset_ids, dry_run, pr)
              success == done.value
          IN  /\ mutations' = mutations \o done.calls
              /\ mutation_status' = done.status
              /\ stdout' =
                    IF truthy(success)
                    THEN IF dry_run
                         THEN done.printed \o << "[DRY-RUN] simulated: add to album" >>
                         ELSE done.printed \o << "assets added to album" >>
                    ELSE done.printed \o << "adding the assets failed" >>
    /\ pc' = "exit"
    /\ UNCHANGED << config, world, chosen, folder_queries, prompt_queries, listing,
                    server_albums, host, albums, exception, interrupted >>

Next ==
    \/ KeyboardInterruptAtPrompt
    \/ HostPrompt
    \/ HostConfirmPrompt
    \/ ApiKeyPrompt
    \/ LibraryRootPrompt
    \/ LibraryRootRetryPrompt
    \/ SelectAlbumPrompt
    \/ NewAlbumNamePrompt
    \/ PathPrompt
    \/ PathRetryPrompt
    \/ Collect
    \/ CreateNewAlbum
    \/ AddToExistingAlbum

Spec == Init /\ [][Next]_vars

-----------------------------------------------------------------------------
(* Claims about convert_to_immich_path, under SpecPath.                    *)

\* p is the directory root or lies below it: root, then a component boundary
Under(p, root) ==
    \/ p = root
    \/ startswith(p, IF endswith(root, S1(sep)) THEN root ELSE root \o S1(sep))

\* what follows the root prefix in the argument
Remainder == SliceFrom(arg, Len(LIBRARY_ROOT))

\* C1: a path that is neither the library root nor below it is returned
\* unchanged, a sibling whose string begins with the root's characters included
C1_NotUnderRootUnchanged ==
    (pc = "returned" /\ ~Under(arg, LIBRARY_ROOT)) => ret = arg

\* C2 as stated: below the root the result is the remainder with exactly one
\* leading separator removed and nothing else
C2_StripsExactlyOneSeparator ==
    (pc = "returned" /\ Under(arg, LIBRARY_ROOT)) =>
        ret = (IF startswith(Remainder, S1(sep)) THEN Tail(Remainder) ELSE Remainder)

\* C2 amended: below the root the result is the remainder with every leading
\* separator removed and nothing else: the remainder is a run of separators
\* followed by the result, and the result does not begin with a separator
C2_StripsLeadingSeparators ==
    (pc = "returned" /\ Under(arg, LIBRARY_ROOT)) =>
        /\ ~startswith(ret, S1(sep))
        /\ \E k \in 0..Len(Remainder) :
              /\ AllChar(SubSeq(Remainder, 1, k), sep)
              /\ ret = SliceFrom(Remainder, k)

\* a path below the root whose remainder begins with repeated separators was converted
C2_Witness ==
    /\ pc = "returned"
    /\ Under(arg, LIBRARY_ROOT)
    /\ startswith(Remainder, S2(sep, sep))
    /\ ret # << >>
    /\ Len(LIBRARY_ROOT) > 1

-----------------------------------------------------------------------------
(* Claims about get_all_assets_recursive, under SpecAgg.                   *)

\* the directories at or below root_folder, by their canonical paths
Descendants(root_folder) ==
    { d \in DOMAIN fs : Under(d, lookup(root_folder).path) }

\* every identifier some directory at or below root_folder reports
ReportedSet(root_folder, resp) ==
    UNION { { resp[convert_to_immich_path(d)].ids[i] :
                i \in 1..Len(resp[convert_to_immich_path(d)].ids) } :
            d \in Descendants(root_folder) }

\* the answers of the directories in dirs, concatenated in that order
RECURSIVE ReportedConcat(_, _)
ReportedConcat(dirs, resp) ==
    IF dirs = << >> THEN << >>
    ELSE resp[convert_to_immich_path(Head(dirs))].ids \o ReportedConcat(Tail(dirs), resp)

\* the position at which x occurs first in xs
FirstIndex(x, xs) ==
    CHOOSE i \in 1..Len(xs) : xs[i] = x /\ \A j \in 1..(i - 1) : xs[j] # x

\* C3: the sequence returned holds every identifier reported by the root or
\* a descendant exactly once, ordered by first occurrence in the root's
\* answer followed by the subdirectories' answers in walk order
C3_EachAssetOnceInFirstSeenOrder ==
    (pc = "returned" /\ ret.raised = NoException) =>
        LET out == ret.value
            seen == ReportedConcat(QueriedDirs(arg), responses)
        IN  /\ \A i, j \in 1..Len(out) : i # j => out[i] # out[j]
            /\ { out[i] : i \in 1..Len(out) } = ReportedSet(arg, responses)
            /\ \A i, j \in 1..Len(out) :
                  i < j => FirstIndex(out[i], seen) < FirstIndex(out[j], seen)

\* the nested tree was aggregated from its top: the root's query failed, /a/a
\* reported nothing, /a/b reported 1 and /a/a/b reported 2 and 1 again; /a/b is
\* listed before /a/a/b, so 1 was seen first
C3_Witness ==
    /\ pc = "returned"
    /\ fs = TreeNested
    /\ arg = AggRoot
    /\ responses[<< >>].kind = "connection_error"
    /\ responses[S1("a")] = [ kind |-> "ok", ids |-> << >> ]
    /\ responses[S1("b")].ids = << "1" >>
    /\ responses[S3("a", sep, "b")].ids = << "2", "1" >>
    /\ ret.raised = NoException
    /\ ret.queries = << << >>, S1("a"), S1("b"), S3("a", sep, "b") >>
    /\ ret.value = << "1", "2" >>

-----------------------------------------------------------------------------
(* Claims about a run of interactive_album_manager, under Spec.            *)

\* the names the server's albums carry
ServerNames == { server_albums[i].albumName : i \in 1..Len(server_albums) }

\* C4: whenever create_album is invoked with a name some album on the server
\* already carries, no create-album POST is issued and a skip is reported,
\* also when the album listing fails
C4_CreateSkipsExistingName ==
    [][ (pc = "operate" /\ is_new_album /\ selected_album.albumName \in ServerNames)
          => /\ mutations' = mutations
             /\ \E i \in 1..Len(stdout') : stdout'[i] = "[SKIP] already exists"
      ]_vars

\* the operation step has run to its end
Operated == pc = "exit" /\ asset_ids # << >> /\ exception = NoException /\ ~interrupted

\* the action a run that is not simulated performs in the same server state
WouldPerform ==
    IF ~is_new_album THEN "append"
    ELSE IF listing = "exists" THEN "skip" ELSE "create"

\* the action the final message names
ActionNamed(message) ==
    CASE message \in { "[DRY-RUN] simulated: create new album", "new album created",
                       "creating the new album failed" } -> "create"
      [] message \in { "[DRY-RUN] simulated: add to album", "assets added to album",
                       "adding the assets failed" } -> "append"
      [] message = "[SKIP] already exists" -> "skip"
      [] OTHER -> "none"

\* C5: a run started with the dry-run flag sends no POST and no PUT, and its
\* final message names the action a run without the flag would have performed
C5_SimulateReportsWouldBeAction ==
    dry_run =>
        /\ mutations = << >>
        /\ Operated => ActionNamed(stdout[Len(stdout)]) = WouldPerform

\* the exception a prompting function raises with no REST call involved
RaisedByPrompt == { "RecursionError" }

\* C6: no failure of a REST call lets an exception reach the top level
C6_NoExceptionPropagates ==
    exception \notin RaisedByPrompt => exception = NoException

\* C7: after an interrupt at a prompt the run has ended, the cancellation was
\* printed, no exception reached the top level and no mutating call was issued
C7_InterruptIsCleanAbort ==
    interrupted =>
        /\ pc = "exit"
        /\ exception = NoException
        /\ stdout # << >> /\ stdout[1] = "cancelled"
        /\ mutations = << >>

\* the directory holding file p, found in the filesystem and not by string surgery
ContainingDir(p) ==
    CHOOSE d \in DOMAIN fs :
        \E i \in 1..Len(fs[d]) : ~fs[d][i].isdir /\ join(d, fs[d][i].name) = lookup(p).path

\* C8: for a target that is a file, the collection at the path prompt and the
\* later one each send exactly one folder query, for the containing directory
C8_FileTargetQueriesItsDirectoryOnly ==
    (full_path # None /\ isfile(full_path)) =>
        LET only == << convert_to_immich_path(ContainingDir(full_path)) >>
        IN  /\ prompt_queries = only
            /\ pc \in { "operate", "exit" } /\ target_path = full_path
                  => folder_queries = only

\* a file was the target and its assets were collected twice
C8_Witness ==
    /\ target_path # None
    /\ isfile(target_path)
    /\ pc = "operate"
    /\ Len(prompt_queries) = 1
    /\ Len(folder_queries) = 1

\* C9: in a run that is not simulated and creates a new album, success is
\* reported if and only if the POST was issued and succeeded, and failure is
\* reported only when the POST failed
C9_CreateMessageAgreesWithOutcome ==
    (Operated /\ ~dry_run /\ is_new_album) =>
        LET final == stdout[Len(stdout)]
            posted == mutations # << >>
        IN  /\ final = "new album created" <=> (posted /\ mutation_status = "ok")
            /\ final = "creating the new album failed" =>
                  (posted /\ mutation_status \in { "connection_error", "http_error" })

\* C10: at most one mutating call is issued, with a non-empty list of assets,
\* after the address, the key and the library root were set and an album and
\* a target path were chosen
C10_OneMutationAfterSetup ==
    /\ Len(mutations) <= 1
    /\ \A i \in 1..Len(mutations) :
          /\ mutations[i].assetIds # << >>
          /\ IMMICH_HOST # None
          /\ API_KEY # None
          /\ LIBRARY_ROOT # None
          /\ selected_album # NoAlbum
          /\ target_path # None

\* a mutating call was issued
C10_Witness ==
    /\ pc = "exit"
    /\ Len(mutations) = 1
    /\ mutations[1].method = "PUT"
    /\ mutation_status = "ok"

=============================================================================
